---------------------------- MODULE Spec2Model ----------------------------
(***************************************************************************)
(* Model of the Jira -> Rocket.Chat notifier: the POST handler of          *)
(* JiraWebhookEndpoint and the functions of JiraLogic it runs              *)
(* (parsePayload, extractParticipants, mapToRCUsers, sendDMs,              *)
(* buildResponse).                                                         *)
(*                                                                         *)
(* JavaScript values are tagged records:                                   *)
(*   [t |-> "undefined"], [t |-> "null"], [t |-> "boolean", b |-> ...],    *)
(*   [t |-> "number", n |-> ...], [t |-> "string", v |-> ...] (an atomic   *)
(*   string), [t |-> "string", chars |-> <<...>>] (a string that the code  *)
(*   splits, held as its sequence of lexemes), [t |-> "string", tokens]    *)
(*   (a string handed to JSON.parse, held as its JSON tokens),             *)
(*   [t |-> "array", items |-> <<...>>],                                   *)
(*   [t |-> "object", f |-> record of properties].                         *)
(***************************************************************************)
EXTENDS Integers, Sequences, FiniteSets, TLC

VARIABLES
    pc,                  \* position of the running invocation
    payload,             \* request.content, the event envelope
    fields,              \* parsePayload(...).fields
    customFieldsSetting, \* the value read from custom_user_fields
    participants,        \* extractParticipants: the local list before dedup
    uniqueParticipants,  \* extractParticipants' return value
    thrown,              \* the exception that left the running function
    mappingField,        \* post: the mapping field handed to mapToRCUsers
    userMapping,         \* mapToRCUsers: the parsed user_mapping_json
    results,             \* mapToRCUsers: results (mapOutput.results)
    warnings,            \* mapToRCUsers: warnings (mapOutput.warnings)
    skipInternal,        \* sendDMs: the value read from skip_internal_comments
    appUser,             \* sendDMs: what getAppUser() returned
    idx,                 \* index of the element the running loop is at
    dmResults,           \* sendDMs: dmResults
    dmWarnings,          \* sendDMs: warnings, the copy of mapOutput.warnings
    calls,               \* the calls made to the host's accessors, in order
    created,             \* usernames a direct room was created with
    messages,            \* the messages handed to the host and accepted
    response             \* what post returned

extractVars == <<participants, uniqueParticipants>>
mapVars == <<mappingField, userMapping, results, warnings>>
sendVars == <<skipInternal, appUser, dmResults, dmWarnings, created, messages>>

vars == <<pc, payload, fields, customFieldsSetting, participants,
          uniqueParticipants, thrown, mappingField, userMapping, results,
          warnings, skipInternal, appUser, idx, dmResults, dmWarnings, calls,
          created, messages, response>>

---------------------------------------------------------------------------
(* JavaScript values *)

Undefined == [t |-> "undefined"]
Null == [t |-> "null"]
Bool(b) == [t |-> "boolean", b |-> b]
Num(n) == [t |-> "number", n |-> n]
Str(s) == [t |-> "string", v |-> s]
Text(cs) == [t |-> "string", chars |-> cs]
JsonText(ts) == [t |-> "string", tokens |-> ts]
Arr(items) == [t |-> "array", items |-> items]
Obj(f) == [t |-> "object", f |-> f]

NoError == "none"
TypeError == "TypeError"

\* v is null or undefined: reading a property of it throws a TypeError
Nullish(v) == v.t \in {"undefined", "null"}

\* ToBoolean(v)
Truthy(v) ==
    CASE v.t \in {"undefined", "null"} -> FALSE
      [] v.t = "boolean" -> v.b
      [] v.t = "number" -> v.n # 0
      [] v.t = "string" -> IF "chars" \in DOMAIN v THEN v.chars # <<>>
                           ELSE IF "tokens" \in DOMAIN v THEN v.tokens # <<>>
                           ELSE IF "v" \in DOMAIN v THEN v.v # ""
                           ELSE TRUE
      [] OTHER -> TRUE

\* Array.isArray(v)
IsArray(v) == v.t = "array"

\* v[k] for a v that is not nullish: an own property of an object, undefined
\* for a missing property and for the properties this model reads off a
\* primitive or an array
Get(v, k) ==
    IF v.t = "object" /\ k \in DOMAIN v.f THEN v.f[k] ELSE Undefined

\* a ?? b
Coalesce(a, b) == IF Nullish(a) THEN b ELSE a

\* a || b
OrElse(a, b) == IF Truthy(a) THEN a ELSE b

---------------------------------------------------------------------------
(* parsePayload *)

\* parsePayload(payload).issue: payload.issue || {}
parseIssue(p) == OrElse(Get(p, "issue"), Obj(<<>>))

\* parsePayload(payload).fields: issue.fields || {}
parseFields(p) == OrElse(Get(parseIssue(p), "fields"), Obj(<<>>))

\* parsePayload(payload).eventType: webhookEvent || issue_event_type_name
parseEventType(p) == OrElse(Get(p, "webhookEvent"), Get(p, "issue_event_type_name"))

---------------------------------------------------------------------------
(* extractParticipants *)

\* if (x) participants.push(x)
PushIfTruthy(x) == IF Truthy(x) THEN <<x>> ELSE <<>>

\* the candidates of lines 26-37, in the order the code pushes them
StandardCandidates(f, p) ==
    PushIfTruthy(Get(f, "assignee"))
    \o PushIfTruthy(Get(f, "reporter"))
    \o PushIfTruthy(Get(f, "creator"))
    \o (IF Truthy(Get(f, "watches")) /\ IsArray(Get(Get(f, "watches"), "watchers"))
        THEN Get(Get(f, "watches"), "watchers").items ELSE <<>>)
    \o (IF IsArray(Get(f, "approvers")) THEN Get(f, "approvers").items ELSE <<>>)
    \o PushIfTruthy(Get(p, "user"))

\* index of the first "," of cs, 0 when there is none
FirstComma(cs) ==
    IF \E i \in 1..Len(cs) : cs[i] = ","
    THEN CHOOSE i \in 1..Len(cs) : cs[i] = "," /\ \A j \in 1..(i - 1) : cs[j] # ","
    ELSE 0

\* cs.split(',')
RECURSIVE SplitComma(_)
SplitComma(cs) ==
    IF FirstComma(cs) = 0 THEN <<cs>>
    ELSE <<SubSeq(cs, 1, FirstComma(cs) - 1)>>
         \o SplitComma(SubSeq(cs, FirstComma(cs) + 1, Len(cs)))

\* f.trim()
RECURSIVE Trim(_)
Trim(cs) ==
    IF cs = <<>> THEN cs
    ELSE IF Head(cs) = " " THEN Trim(Tail(cs))
    ELSE IF cs[Len(cs)] = " " THEN Trim(SubSeq(cs, 1, Len(cs) - 1))
    ELSE cs

\* split(',').map(trim).filter(Boolean): the configured keys, in order
CustomFieldKeys(setting) ==
    IF Truthy(setting) /\ setting.t = "string" /\ "chars" \in DOMAIN setting
    THEN LET parts == SplitComma(setting.chars)
             trimmed == [i \in 1..Len(parts) |-> Trim(parts[i])]
         IN SelectSeq(trimmed, LAMBDA k : k # <<>>)
    ELSE <<>>

\* fields[fieldKey]: a key of one lexeme names that property; a key made of
\* several lexemes names a property no object of the model has
FieldValue(f, key) == IF Len(key) = 1 THEN Get(f, key[1]) ELSE Undefined

\* ApproverRefs without the test of approverWrapper.approver: every wrapper
\* that is not falsy is pushed through
RECURSIVE ApproverRefsUnchecked(_)
ApproverRefsUnchecked(ws) ==
    IF ws = <<>> THEN <<>>
    ELSE (IF Truthy(Head(ws)) THEN <<Get(Head(ws), "approver")>> ELSE <<>>)
         \o ApproverRefsUnchecked(Tail(ws))

\* for (const approverWrapper of approvers)
\*     if (approverWrapper && approverWrapper.approver) push(approverWrapper.approver)
RECURSIVE ApproverRefs(_)
ApproverRefs(ws) ==
    IF ws = <<>> THEN <<>>
    ELSE (IF Truthy(Head(ws)) /\ Truthy(Get(Head(ws), "approver"))
          THEN <<Get(Head(ws), "approver")>> ELSE <<>>)
         \o ApproverRefs(Tail(ws))

\* for (const approvalObj of value)
\*     if (approvalObj && Array.isArray(approvalObj.approvers)) ...
RECURSIVE ApprovalListRefs(_)
ApprovalListRefs(objs) ==
    IF objs = <<>> THEN <<>>
    ELSE (IF Truthy(Head(objs)) /\ IsArray(Get(Head(objs), "approvers"))
          THEN ApproverRefs(Get(Head(objs), "approvers").items) ELSE <<>>)
         \o ApprovalListRefs(Tail(objs))

\* what one configured field's value adds to participants (lines 53-87)
FieldCandidates(value) ==
    IF IsArray(value)
    THEN LET firstItem == IF value.items = <<>> THEN Undefined ELSE value.items[1]
         IN IF Truthy(firstItem) /\ IsArray(Get(firstItem, "approvers"))
            THEN ApprovalListRefs(value.items)
            ELSE value.items
    ELSE IF Truthy(value) /\ value.t = "object"
    THEN IF IsArray(Get(value, "approvers"))
         THEN ApproverRefs(Get(value, "approvers").items)
         ELSE <<value>>
    ELSE <<>>

\* the loop over the configured keys (lines 47-89)
RECURSIVE CustomCandidates(_, _)
CustomCandidates(f, keys) ==
    IF keys = <<>> THEN <<>>
    ELSE FieldCandidates(FieldValue(f, Head(keys))) \o CustomCandidates(f, Tail(keys))

\* the local list participants when the dedup loop starts
CollectParticipants(f, p, setting) ==
    StandardCandidates(f, p) \o CustomCandidates(f, CustomFieldKeys(setting))

\* p.accountId ?? p.emailAddress ?? p.name, for a p that is not nullish
DedupKey(p) ==
    Coalesce(Coalesce(Get(p, "accountId"), Get(p, "emailAddress")), Get(p, "name"))

\* unique.has(key) for the Map held as its entries in insertion order
MapHas(entries, key) == \E i \in 1..Len(entries) : entries[i].key = key

\* the dedup loop (lines 90-98) from index i on, unique holding entries
RECURSIVE DedupLoop(_, _, _)
DedupLoop(ps, i, entries) ==
    IF i > Len(ps) THEN entries
    ELSE DedupLoop(ps, i + 1,
            IF Truthy(DedupKey(ps[i])) /\ ~MapHas(entries, DedupKey(ps[i]))
            THEN Append(entries, [key |-> DedupKey(ps[i]), value |-> ps[i]])
            ELSE entries)

\* p.accountId of a null or undefined entry throws (line 94)
DedupThrows(ps) == \E i \in 1..Len(ps) : Nullish(ps[i])

\* Array.from(unique.values())
Dedup(ps) ==
    LET entries == DedupLoop(ps, 1, <<>>)
    IN [i \in 1..Len(entries) |-> entries[i].value]

\* extractParticipants(fields, payload, customFieldsSetting)
extractParticipants(f, p, setting) ==
    LET collected == CollectParticipants(f, p, setting)
    IN IF DedupThrows(collected)
       THEN [thrown |-> TypeError, participants |-> collected, value |-> <<>>]
       ELSE [thrown |-> NoError, participants |-> collected, value |-> Dedup(collected)]

---------------------------------------------------------------------------
(* The host's accessors: what a call may answer *)

\* the answer of a call that rejected (threw) with an Error
Throw == [t |-> "throw"]

\* err.message of the Error a rejected call of op carries
ErrorMessage(op) == [t |-> "string", failed |-> op]

\* String(err) of that Error: "Error: " followed by the message
ErrorString(op) == [t |-> "string", error |-> op]

\* the message of the TypeError of a property read on undefined or null
TypeErrorMessage == [t |-> "string", failed |-> "TypeError"]

\* the message of the SyntaxError JSON.parse throws
SyntaxErrorMessage == [t |-> "string", failed |-> "SyntaxError"]

\* what finish() answers when the host accepted a room or a message
Finished == Str("id")

\* an entry of calls: the operation, its argument and what the host answered
Call(op, arg, answer) == [op |-> op, arg |-> arg, answer |-> answer]

\* read.getEnvironmentReader().getSettings().getValueById(id)
SettingCall(id, answer) == Call("getValueById", Str(id), answer)

\* the application's own user
AppUser == Obj([id |-> Str("app"), username |-> Str("jira.bot")])

\* the directory's account of a username (its id is written as the username)
RcUser(username) == Obj([id |-> username, username |-> username])

\* the direct room of a user and the application
Room(username) == Obj([type |-> Str("d"), usernames |-> Arr(<<username, Str("jira.bot")>>)])

---------------------------------------------------------------------------
(* JSON.parse on the token sequences the model draws *)

LBrace == [k |-> "punct", s |-> "{"]
RBrace == [k |-> "punct", s |-> "}"]
Colon == [k |-> "punct", s |-> ":"]
Comma == [k |-> "punct", s |-> ","]
NullToken == [k |-> "literal", s |-> "null"]
Quoted(s) == [k |-> "string", s |-> s]

\* the value of a scalar token
ScalarValue(tok) == IF tok.k = "string" THEN Str(tok.s) ELSE Null

IsScalar(tok) == tok.k = "string" \/ tok = NullToken

\* the tokens between the braces are members "key": scalar separated by commas
MembersOk(inner) ==
    \/ inner = <<>>
    \/ /\ Len(inner) % 4 = 3
       /\ \A i \in 1..Len(inner) :
             CASE i % 4 = 1 -> inner[i].k = "string"
               [] i % 4 = 2 -> inner[i] = Colon
               [] i % 4 = 3 -> IsScalar(inner[i])
               [] OTHER -> inner[i] = Comma

\* the object of the members: a repeated key keeps its last value
MembersObject(inner) ==
    LET n == (Len(inner) + 1) \div 4
        keys == {inner[4 * m - 3].s : m \in 1..n}
        last(key) == CHOOSE m \in 1..n :
                        /\ inner[4 * m - 3].s = key
                        /\ \A m2 \in 1..n : inner[4 * m2 - 3].s = key => m2 <= m
    IN Obj([key \in keys |-> ScalarValue(inner[4 * last(key) - 1])])

\* JSON.parse(text): [ok |-> TRUE, value |-> v], or ok FALSE for a SyntaxError
JsonParse(text) ==
    LET ts == text.tokens
    IN IF Len(ts) = 1 /\ IsScalar(ts[1])
       THEN [ok |-> TRUE, value |-> ScalarValue(ts[1])]
       ELSE IF /\ Len(ts) >= 2 /\ ts[1] = LBrace /\ ts[Len(ts)] = RBrace
               /\ MembersOk(SubSeq(ts, 2, Len(ts) - 1))
       THEN [ok |-> TRUE, value |-> MembersObject(SubSeq(ts, 2, Len(ts) - 1))]
       ELSE [ok |-> FALSE, value |-> Undefined]

\* what getValueById may answer for each setting
CustomFieldsReads == {Throw, Undefined, Text(<<"customfield_1">>)}

MappingJsonReads ==
    { Throw, Undefined,
      JsonText(<<LBrace, Quoted("bob"), Colon, Quoted("robert"), RBrace>>),
      JsonText(<<LBrace, Quoted("bob")>>),
      JsonText(<<NullToken>>) }

MappingFieldReads == {Throw, Undefined, Str("emailAddress")}

SkipInternalReads == {Throw, Bool(TRUE), Bool(FALSE)}

---------------------------------------------------------------------------
(* mapToRCUsers *)

\* a warning string: a fixed text followed by an error's message
Warning(text, detail) == [text |-> text, detail |-> detail]

\* lines 131-151: userMapping and warnings after the setting was read as raw
\* (Throw when the read rejected)
ParseUserMapping(raw) ==
    IF raw = Throw
    THEN [userMapping |-> Obj(<<>>),
          warnings |-> <<Warning("Could not read user_mapping_json: ",
                                 ErrorMessage("getValueById"))>>]
    ELSE IF ~Truthy(raw)
    THEN [userMapping |-> Obj(<<>>), warnings |-> <<>>]
    ELSE IF JsonParse(raw).ok
    THEN [userMapping |-> JsonParse(raw).value, warnings |-> <<>>]
    ELSE [userMapping |-> Obj(<<>>),
          warnings |-> <<Warning("Invalid JSON in user_mapping_json: ",
                                 SyntaxErrorMessage)>>]

\* participant[mappingField]
MappingKey(participant, field) == Get(participant, field.v)

\* a function object, such as Object.prototype.constructor
Function == [t |-> "function"]

\* the property names every object inherits from Object.prototype that the
\* model draws as user names
ObjectPrototypeKeys == {"constructor"}

\* userMapping[key] for a string key: the own property, else the property
\* inherited from Object.prototype, else undefined; undefined for any other
\* key
MappingLookup(mapping, key) ==
    IF "v" \notin DOMAIN key THEN Undefined
    ELSE IF mapping.t = "object" /\ key.v \in DOMAIN mapping.f THEN mapping.f[key.v]
    ELSE IF mapping.t = "object" /\ key.v \in ObjectPrototypeKeys THEN Function
    ELSE Undefined

\* line 156 reads a property of userMapping when the participant has the
\* mapping field: a TypeError when userMapping is null
MappingThrows(participant, field, mapping) ==
    Truthy(MappingKey(participant, field)) /\ Nullish(mapping)

\* lines 155-160: the destination username of a participant
DestinationUsername(participant, field, mapping) ==
    IF /\ Truthy(MappingKey(participant, field))
       /\ Truthy(MappingLookup(mapping, MappingKey(participant, field)))
    THEN MappingLookup(mapping, MappingKey(participant, field))
    ELSE MappingKey(participant, field)

\* an IMapResult
MapResult(username, rcUser, error, participant) ==
    [username |-> username, rcUser |-> rcUser, error |-> error,
     participant |-> participant]

\* what getByUsername may answer for a username
DirectoryAnswers(username) ==
    IF username.t = "string" THEN {Throw, Undefined, RcUser(username)}
    ELSE {Throw, Undefined}

\* LookupResult pushing a failed lookup without its username, as line 164 does
LookupResultNoUsername(participant, username, answer) ==
    IF answer = Throw
    THEN MapResult(Undefined, Undefined, ErrorString("getByUsername"), participant)
    ELSE IF ~Truthy(answer)
    THEN MapResult(Undefined, Undefined, Str("User not found"), participant)
    ELSE MapResult(username, answer, Undefined, participant)

\* LookupResult reporting a rejected lookup as a user that was not found
LookupResultThrowAsNotFound(participant, username, answer) ==
    IF answer = Throw \/ ~Truthy(answer)
    THEN MapResult(username, Undefined, Str("User not found"), participant)
    ELSE MapResult(username, answer, Undefined, participant)

\* lines 168-179: the result pushed for a participant whose lookup answered
LookupResult(participant, username, answer) ==
    IF answer = Throw
    THEN MapResult(username, Undefined, ErrorString("getByUsername"), participant)
    ELSE IF ~Truthy(answer)
    THEN MapResult(username, Undefined, Str("User not found"), participant)
    ELSE MapResult(username, answer, Undefined, participant)

---------------------------------------------------------------------------
(* sendDMs *)

\* an ISendDMResult
DMResult(username, rcUserId, sent, error) ==
    [username |-> username, rcUserId |-> rcUserId, sent |-> sent, error |-> error]

\* AppUserUndefinedResults pushing each result's own error, as line 299 does
AppUserUndefinedResultsKeepError(rs) ==
    [i \in 1..Len(rs) |-> DMResult(rs[i].username, Undefined, FALSE, rs[i].error)]

\* lines 291-293: the outcomes pushed when getAppUser() answered nothing
AppUserUndefinedResults(rs) ==
    [i \in 1..Len(rs) |->
        DMResult(rs[i].username, Undefined, FALSE, Str("App user is undefined"))]

\* IsCommentEvent without the standalone comment events
IsCommentEventUpdatedOnly(eventType, data) ==
    /\ eventType = Str("jira:issue_updated")
    /\ Get(data, "issue_event_type_name") \in
           {Str("issue_commented"), Str("issue_comment_deleted"),
            Str("issue_comment_edited")}

\* lines 307-317: the event is one of the comment events
IsCommentEvent(eventType, data) ==
    \/ eventType \in {Str("issue_commented"), Str("comment_created"),
                      Str("comment_updated"), Str("comment_deleted")}
    \/ /\ eventType = Str("jira:issue_updated")
       /\ Get(data, "issue_event_type_name") \in
              {Str("issue_commented"), Str("issue_comment_deleted"),
               Str("issue_comment_edited")}

\* IsInternalSkipped testing comment.public !== true instead of === false
IsInternalSkippedUnlessPublic(skip, eventType, data) ==
    /\ Truthy(skip)
    /\ IsCommentEvent(eventType, data)
    /\ Truthy(Get(data, "comment"))
    /\ Get(Get(data, "comment"), "public") # Bool(TRUE)

\* lines 304-320: the condition under which the DM is skipped
IsInternalSkipped(skip, eventType, data) ==
    /\ Truthy(skip)
    /\ IsCommentEvent(eventType, data)
    /\ Truthy(Get(data, "comment"))
    /\ Get(Get(data, "comment"), "public") = Bool(FALSE)

\* x is a string
IsString(x) == x.t = "string"

\* lines 342-350: building the summary link reads issue.self.replace,
\* issue.fields.assignee and issue.fields.priority?.name.replace
SummaryThrows(issue) ==
    \/ ~IsString(Get(issue, "self"))
    \/ Nullish(Get(issue, "fields"))
    \/ /\ ~Nullish(Get(Get(issue, "fields"), "priority"))
       /\ ~IsString(Get(Get(Get(issue, "fields"), "priority"), "name"))

\* prepareAttachment(issue, user, text): the text is held as its leading
\* words and the values the rest is rendered from
Attachment(head, user, body) == [head |-> head, author |-> user, body |-> body]

\* the comment attachments read c.author of data.comment
CommentThrows(data) == Nullish(Get(data, "comment"))

CommentAttachment(head, data) ==
    <<Attachment(head, Get(Get(data, "comment"), "author"),
                 <<Get(Get(data, "comment"), "body")>>)>>

\* line 391: Array.isArray(data.changelog?.items)
HasChangelogItems(data) ==
    /\ ~Nullish(Get(data, "changelog"))
    /\ IsArray(Get(Get(data, "changelog"), "items"))

\* the changelog items cut down to the first one
ChangelogItemsFirstOnly(data) ==
    LET items == Get(Get(data, "changelog"), "items").items
    IN IF items = <<>> THEN <<>> ELSE <<items[1]>>

\* line 392: data.changelog.items
ChangelogItems(data) == Get(Get(data, "changelog"), "items").items

\* the secondary discriminator names one of the three comment events
IsCommentSecondary(data) ==
    Get(data, "issue_event_type_name") \in
        {Str("issue_commented"), Str("issue_comment_deleted"),
         Str("issue_comment_edited")}

\* lines 354-440 throw a TypeError
AttachmentsThrow(eventType, data) ==
    \/ /\ eventType \in {Str("issue_commented"), Str("comment_created"),
                         Str("comment_updated"), Str("comment_deleted")}
       /\ CommentThrows(data)
    \/ /\ eventType = Str("jira:issue_updated")
       /\ \/ IsCommentSecondary(data) /\ CommentThrows(data)
          \/ /\ ~IsCommentSecondary(data)
             /\ HasChangelogItems(data)
             /\ \E i \in 1..Len(ChangelogItems(data)) : Nullish(ChangelogItems(data)[i])

\* SelectAttachments whose default case renders an attachment
SelectAttachmentsByDefault(eventType, data, issue, participant) ==
    <<Attachment("*Updated*", participant, <<>>)>>

\* lines 353-440: the attachments selected for the event
SelectAttachments(eventType, data, issue, participant) ==
    CASE eventType = Str("jira:issue_created") ->
            <<Attachment("*Created*", participant,
                         <<Get(Get(issue, "fields"), "description")>>)>>
      [] eventType = Str("jira:issue_deleted") ->
            <<Attachment("*Deleted*", participant, <<>>)>>
      [] eventType = Str("jira:issue_updated") ->
            IF Get(data, "issue_event_type_name") = Str("issue_commented")
            THEN CommentAttachment("Comment on", data)
            ELSE IF Get(data, "issue_event_type_name") = Str("issue_comment_deleted")
            THEN CommentAttachment("Comment deleted for", data)
            ELSE IF Get(data, "issue_event_type_name") = Str("issue_comment_edited")
            THEN CommentAttachment("Comment updated for", data)
            ELSE IF HasChangelogItems(data) /\ ChangelogItems(data) # <<>>
            THEN <<Attachment("*Updated*", participant, ChangelogItems(data))>>
            ELSE <<>>
      [] eventType \in {Str("issue_commented"), Str("comment_created")} ->
            CommentAttachment("Comment created for", data)
      [] eventType = Str("comment_updated") ->
            CommentAttachment("Comment updated for", data)
      [] eventType = Str("comment_deleted") ->
            CommentAttachment("Comment deleted for", data)
      [] OTHER -> <<>>

\* the message built without setSender
MessageWithoutSender(room, sender, attachments) ==
    [room |-> room, sender |-> Undefined, attachments |-> attachments]

\* the message of lines 448-452
Message(room, sender, attachments) ==
    [room |-> room, sender |-> sender, attachments |-> attachments]

\* one way the try block of an iteration can go: the calls it made, the rooms
\* it created, the messages the host accepted and the error it caught
\* (undefined when the DM was sent)
Outcome(newCalls, newCreated, newMessages, error) ==
    [calls |-> newCalls, created |-> newCreated, messages |-> newMessages,
     error |-> error]

\* lines 341-455, once the room is held: the ways the rest of the try block
\* can go after the calls made so far
AfterRoom(soFar, made, room, r, app, eventType, data, issue) ==
    IF SummaryThrows(issue) \/ AttachmentsThrow(eventType, data)
    THEN {Outcome(soFar, made, <<>>, TypeErrorMessage)}
    ELSE IF SelectAttachments(eventType, data, issue, r.participant) = <<>>
    THEN {Outcome(soFar, made, <<>>, Str("No handler for event"))}
    ELSE LET msg == Message(room, app,
                            SelectAttachments(eventType, data, issue, r.participant))
         IN { Outcome(Append(soFar, Call("sendMessage", msg, Finished)), made,
                      <<msg>>, Undefined),
              Outcome(Append(soFar, Call("sendMessage", msg, Throw)), made, <<>>,
                      ErrorMessage("sendMessage")) }

\* lines 327-459: the ways the try block can go for a resolved recipient
\* that was not skipped
TryOutcomes(r, app, eventType, data, issue) ==
    LET user == Get(r.rcUser, "username")
        pair == Arr(<<user, Get(app, "username")>>)
        lookup(answer) == Call("getDirectByUsernames", pair, answer)
        create(answer) == Call("createRoom", pair, answer)
        none == lookup(Undefined)
        made == create(Finished)
    IN \* the first lookup rejects
       {Outcome(<<lookup(Throw)>>, {}, <<>>, ErrorMessage("getDirectByUsernames"))}
       \* the first lookup answers the room
       \cup AfterRoom(<<lookup(Room(user))>>, {}, Room(user), r, app, eventType, data,
                      issue)
       \* the first lookup answers nothing, the creation rejects
       \cup {Outcome(<<none, create(Throw)>>, {}, <<>>, ErrorMessage("createRoom"))}
       \* the room is created, the second lookup rejects
       \cup {Outcome(<<none, made, lookup(Throw)>>, {user}, <<>>,
                     ErrorMessage("getDirectByUsernames"))}
       \* the room is created, the second lookup answers it
       \cup AfterRoom(<<none, made, lookup(Room(user))>>, {user}, Room(user),
                      r, app, eventType, data, issue)
       \* the room is created, the second lookup still answers nothing
       \cup AfterRoom(<<none, made, none>>, {user}, Undefined,
                      r, app, eventType, data, issue)

\* lines 298-300 skipping an unresolved result without pushing an outcome
UnresolvedResultsDropped(dms, r) == dms

\* lines 298-300 putting the outcome in front (unshift for push)
UnresolvedResultsInFront(dms, r) ==
    <<DMResult(r.username, Undefined, FALSE, r.error)>> \o dms

\* lines 298-300: the outcome pushed for a result without rcUser
UnresolvedResults(dms, r) ==
    Append(dms, DMResult(r.username, Undefined, FALSE, r.error))

\* TryResult with a catch block that records the failure without its error
TryResultWithoutError(r, o) ==
    IF o.error = Undefined
    THEN DMResult(r.username, Get(r.rcUser, "id"), TRUE, Undefined)
    ELSE DMResult(r.username, Undefined, FALSE, Undefined)

\* the outcome pushed at the end of an iteration of the try block
TryResult(r, o) ==
    IF o.error = Undefined
    THEN DMResult(r.username, Get(r.rcUser, "id"), TRUE, Undefined)
    ELSE DMResult(r.username, Undefined, FALSE, o.error)

---------------------------------------------------------------------------
(* buildResponse *)

\* dmResults.filter(r => r.sent).length
SentCount(rs) == Cardinality({i \in 1..Len(rs) : rs[i].sent})

\* buildResponse reporting success only when a DM was sent
buildResponseSuccessIfSent(issueKey, eventType, parts, dms, warns) ==
    [success |-> SentCount(dms) > 0,
     message |-> "Jira webhook received, parsed, and DMs attempted",
     parsed |-> [issueKey |-> issueKey, eventType |-> eventType,
                 participantCount |-> Len(parts), totalDMs |-> Len(dms),
                 sent |-> SentCount(dms)],
     warnings |-> warns]

\* buildResponse counting the sent DMs as totalDMs
buildResponseSentAsTotal(issueKey, eventType, parts, dms, warns) ==
    [success |-> TRUE,
     message |-> "Jira webhook received, parsed, and DMs attempted",
     parsed |-> [issueKey |-> issueKey, eventType |-> eventType,
                 participantCount |-> Len(parts), totalDMs |-> SentCount(dms),
                 sent |-> SentCount(dms)],
     warnings |-> warns]

buildResponse(issueKey, eventType, parts, dms, warns) ==
    [success |-> TRUE,
     message |-> "Jira webhook received, parsed, and DMs attempted",
     parsed |-> [issueKey |-> issueKey, eventType |-> eventType,
                 participantCount |-> Len(parts), totalDMs |-> Len(dms),
                 sent |-> SentCount(dms)],
     warnings |-> warns]

---------------------------------------------------------------------------
(* Inputs of the extraction: user references and field values *)

\* the longest watchers array of the envelopes the model draws
MaxWatchers == 2

bob == Obj([name |-> Str("bob")])
bobAccount ==
    Obj([accountId |-> Str("a1"), name |-> Str("bob"), emailAddress |-> Str("bob@x")])
mailA1 == Obj([emailAddress |-> Str("a1"), displayName |-> Str("Al")])
nullAccount == Obj([accountId |-> Null, name |-> Str("eve")])
emptyAccount == Obj([accountId |-> Str(""), name |-> Str("zed")])
carol == Obj([name |-> Str("carol")])
dave == Obj([name |-> Str("dave")])
erin == Obj([name |-> Str("erin")])
frank == Obj([name |-> Str("frank")])
userA1 == Obj([accountId |-> Str("a1")])
noKey == Obj([displayName |-> Str("Nobody")])

\* { approver: x }
Wrapper(x) == Obj([approver |-> x])
\* { approvers: [...] }
Approval(ws) == Obj([approvers |-> Arr(ws)])

\* the approval object of the tests: [{approvers:[{approver:{accountId:'a1'}}]}]
ApprovalExample == Arr(<<Approval(<<Wrapper(userA1)>>)>>)

WatcherPool == {Null, Str("x"), mailA1}

WatchesValues ==
    {Undefined} \cup
    {Obj([watchers |-> Arr(ws)]) :
        ws \in UNION {[1..n -> WatcherPool] : n \in 0..MaxWatchers}}

CustomFieldValues ==
    { Undefined, Null, Str("text"), erin,
      Approval(<<Wrapper(userA1), Obj([name |-> Str("w")]), Null, Wrapper(Null)>>),
      Arr(<<>>),
      Arr(<<erin, noKey, emptyAccount, bob>>),
      Arr(<<Null, erin>>),
      ApprovalExample,
      Arr(<<Approval(<<Wrapper(carol), Wrapper(Undefined)>>), erin, Null,
            Approval(<<Wrapper(userA1)>>)>>),
      Arr(<<erin, Approval(<<Wrapper(carol)>>)>>) }

CustomFieldsSettings ==
    { Undefined, Text(<<>>), Num(7),
      Text(<<"customfield_1">>),
      Text(<<"customfield_1", ",", " ", "customfield_2">>),
      Text(<<" ", "customfield_2", ",", ",", "customfield_1", " ">>),
      Text(<<"customfield_1", " ", "customfield_2">>) }

ExtractFields ==
    { Obj([assignee |-> a, reporter |-> r, creator |-> c, watches |-> w,
           approvers |-> ap, customfield_1 |-> c1, customfield_2 |-> c2]) :
        a \in {Undefined, bob}, r \in {Undefined, bobAccount},
        c \in {Undefined, nullAccount}, w \in WatchesValues,
        ap \in {Undefined, Arr(<<carol>>)},
        c1 \in CustomFieldValues, c2 \in {frank} }

ExtractPayloads ==
    { Obj([issue |-> Obj([fields |-> f]), approvers |-> ap, user |-> u]) :
        f \in ExtractFields, ap \in {Undefined, Arr(<<dave>>)},
        u \in {Undefined, bob} }

---------------------------------------------------------------------------
(* The state of the later stages before they have run *)

NotStarted ==
    /\ mappingField = Undefined
    /\ userMapping = Undefined
    /\ results = <<>>
    /\ warnings = <<>>
    /\ skipInternal = Undefined
    /\ appUser = Undefined
    /\ idx = 0
    /\ dmResults = <<>>
    /\ dmWarnings = <<>>
    /\ calls = <<>>
    /\ created = {}
    /\ messages = <<>>
    /\ response = Undefined

---------------------------------------------------------------------------
(* extractParticipants called on its own *)

InitExtract ==
    /\ pc = "extract"
    /\ payload \in ExtractPayloads
    /\ fields = parseFields(payload)
    /\ customFieldsSetting \in CustomFieldsSettings
    /\ participants = <<>>
    /\ uniqueParticipants = <<>>
    /\ thrown = NoError
    /\ NotStarted

\* one call of extractParticipants(fields, payload, customFieldsSetting)
ExtractCall ==
    /\ pc = "extract"
    /\ LET r == extractParticipants(fields, payload, customFieldsSetting)
       IN /\ participants' = r.participants
          /\ uniqueParticipants' = r.value
          /\ thrown' = r.thrown
          /\ pc' = IF r.thrown = NoError THEN "extracted" ELSE "threw"
    /\ UNCHANGED <<payload, fields, customFieldsSetting, mapVars, sendVars, idx,
                   calls, response>>

NextExtract == ExtractCall

SpecExtract == InitExtract /\ [][NextExtract]_vars

---------------------------------------------------------------------------
(* mapToRCUsers and sendDMs, one action for each call to the host together
   with the code that runs until the next call *)

HostError == "Error"

\* a loop that takes the elements from the last to the first
ForOfReversed(xs, i) == xs[Len(xs) + 1 - i]

\* lines 154 and 297: the element of the i-th iteration of for (const x of xs)
ForOf(xs, i) == xs[i]

\* lines 131-151 of mapToRCUsers: user_mapping_json is read and parsed
MapReadUserMapping ==
    /\ pc = "mapReadMapping"
    /\ \E raw \in MappingJsonReads :
          /\ userMapping' = ParseUserMapping(raw).userMapping
          /\ warnings' = ParseUserMapping(raw).warnings
          /\ calls' = Append(calls, SettingCall("user_mapping_json", raw))
    /\ results' = <<>>
    /\ idx' = 1
    /\ pc' = "mapLoop"
    /\ UNCHANGED <<payload, fields, customFieldsSetting, extractVars, thrown,
                   mappingField, sendVars, response>>

\* lines 154-180: one iteration of the loop over the participants
MapParticipant ==
    /\ pc = "mapLoop"
    /\ idx <= Len(uniqueParticipants)
    /\ LET participant == ForOf(uniqueParticipants, idx)
           username == DestinationUsername(participant, mappingField, userMapping)
       IN IF MappingThrows(participant, mappingField, userMapping)
          THEN /\ thrown' = TypeError
               /\ pc' = "crashed"
               /\ UNCHANGED <<results, calls, idx>>
          ELSE IF ~Truthy(username)
          THEN /\ results' = Append(results,
                      MapResult(Undefined, Undefined, Str("No username"), participant))
               /\ idx' = idx + 1
               /\ UNCHANGED <<thrown, pc, calls>>
          ELSE /\ \E answer \in DirectoryAnswers(username) :
                     /\ results' = Append(results,
                                          LookupResult(participant, username, answer))
                     /\ calls' = Append(calls, Call("getByUsername", username, answer))
               /\ idx' = idx + 1
               /\ UNCHANGED <<thrown, pc>>
    /\ UNCHANGED <<payload, fields, customFieldsSetting, extractVars, mappingField,
                   userMapping, warnings, sendVars, response>>

\* line 182: mapToRCUsers returns and post calls sendDMs with its output
MapReturn ==
    /\ pc = "mapLoop"
    /\ idx > Len(uniqueParticipants)
    /\ pc' = "sendReadSkip"
    /\ idx' = 0
    /\ UNCHANGED <<payload, fields, customFieldsSetting, extractVars, thrown, mapVars,
                   sendVars, calls, response>>

\* lines 276-286 of sendDMs: the warnings are copied, skip_internal_comments
\* is read
SendReadSkipInternal ==
    /\ pc = "sendReadSkip"
    /\ \E answer \in SkipInternalReads :
          /\ skipInternal' = IF answer = Throw THEN Bool(FALSE) ELSE answer
          /\ calls' = Append(calls, SettingCall("skip_internal_comments", answer))
    /\ dmWarnings' = warnings
    /\ dmResults' = <<>>
    /\ pc' = "sendGetAppUser"
    /\ UNCHANGED <<payload, fields, customFieldsSetting, extractVars, thrown, mapVars,
                   appUser, idx, created, messages, response>>

\* lines 288-295: getAppUser() is awaited outside any try
SendGetAppUser ==
    /\ pc = "sendGetAppUser"
    /\ \E answer \in {Throw, Undefined, AppUser} :
       /\ calls' = Append(calls, Call("getAppUser", Undefined, answer))
       /\ IF answer = Throw
          THEN /\ thrown' = HostError
               /\ pc' = "crashed"
               /\ UNCHANGED <<appUser, dmResults, idx>>
          ELSE IF ~Truthy(answer)
          THEN /\ appUser' = answer
               /\ dmResults' = AppUserUndefinedResults(results)
               /\ pc' = "sendReturned"
               /\ UNCHANGED <<thrown, idx>>
          ELSE /\ appUser' = answer
               /\ idx' = 1
               /\ pc' = "sendLoop"
               /\ UNCHANGED <<thrown, dmResults>>
    /\ UNCHANGED <<payload, fields, customFieldsSetting, extractVars, mapVars,
                   skipInternal, dmWarnings, created, messages, response>>

\* lines 297-460: one iteration of the loop over the resolution results
SendRecipient ==
    /\ pc = "sendLoop"
    /\ idx <= Len(results)
    /\ LET r == ForOf(results, idx)
           eventType == parseEventType(payload)
       IN IF ~Truthy(r.rcUser)
          THEN /\ dmResults' = UnresolvedResults(dmResults, r)
               /\ UNCHANGED <<calls, created, messages>>
          ELSE IF IsInternalSkipped(skipInternal, eventType, payload)
          THEN /\ dmResults' = Append(dmResults,
                      DMResult(r.username, Undefined, FALSE,
                               Str("Internal comment, DM not sent")))
               /\ UNCHANGED <<calls, created, messages>>
          ELSE \E o \in TryOutcomes(r, appUser, eventType, payload, parseIssue(payload)) :
                  /\ dmResults' = Append(dmResults, TryResult(r, o))
                  /\ calls' = calls \o o.calls
                  /\ created' = created \cup o.created
                  /\ messages' = messages \o o.messages
    /\ idx' = idx + 1
    /\ UNCHANGED <<pc, payload, fields, customFieldsSetting, extractVars, thrown,
                   mapVars, skipInternal, appUser, dmWarnings, response>>

\* line 461: sendDMs returns { dmResults, warnings }
SendReturn ==
    /\ pc = "sendLoop"
    /\ idx > Len(results)
    /\ pc' = "sendReturned"
    /\ UNCHANGED <<payload, fields, customFieldsSetting, extractVars, thrown, mapVars,
                   sendVars, idx, calls, response>>

---------------------------------------------------------------------------
(* mapToRCUsers called on its own, with any deduplicated participants *)

\* the longest participant list mapToRCUsers is called with
MaxParticipants == 2

\* a Jira user whose name is the name of an inherited property
constructorUser == Obj([name |-> Str("constructor")])

ParticipantPool == {bob, carol, bobAccount, userA1, constructorUser}

\* the lists extractParticipants can return: every entry has a dedup key and
\* no two entries share one
ParticipantLists ==
    { ps \in UNION {[1..n -> ParticipantPool] : n \in 0..MaxParticipants} :
        \A i, j \in 1..Len(ps) : DedupKey(ps[i]) = DedupKey(ps[j]) => i = j }

InitMap ==
    /\ pc = "mapReadMapping"
    /\ payload = Undefined
    /\ fields = Undefined
    /\ customFieldsSetting = Undefined
    /\ participants = <<>>
    /\ uniqueParticipants \in ParticipantLists
    /\ thrown = NoError
    /\ mappingField \in {Str("name"), Str("emailAddress")}
    /\ userMapping = Undefined
    /\ results = <<>>
    /\ warnings = <<>>
    /\ skipInternal = Undefined
    /\ appUser = Undefined
    /\ idx = 0
    /\ dmResults = <<>>
    /\ dmWarnings = <<>>
    /\ calls = <<>>
    /\ created = {}
    /\ messages = <<>>
    /\ response = Undefined

NextMap ==
    \/ MapReadUserMapping
    \/ MapParticipant
    \/ MapReturn

SpecMap == InitMap /\ [][NextMap]_vars

---------------------------------------------------------------------------
(* Envelopes *)

\* the envelope with these top-level properties
Envelope(issue, webhookEvent, secondary, comment, changelog, user) ==
    Obj([issue |-> issue, webhookEvent |-> webhookEvent,
         issue_event_type_name |-> secondary, comment |-> comment,
         changelog |-> changelog, user |-> user, approvers |-> Undefined])

\* an issue with key PRJ-1 and these fields; self is the issue's REST URL
Issue(self, f) == Obj([key |-> Str("PRJ-1"), self |-> self, fields |-> f])

SelfUrl == Str("https://jira/rest/api/2/issue/1")

\* comment objects: internal, public, and without the public flag
CommentOf(public) ==
    Obj([public |-> public, body |-> Str("a comment"), author |-> carol])

CommentValues == {Undefined, CommentOf(Bool(FALSE)), CommentOf(Bool(TRUE)),
                  CommentOf(Undefined)}

\* a changelog with these items
Changelog(items) == Obj([items |-> Arr(items)])

Change(field) ==
    Obj([field |-> Str(field), fromString |-> Str("old"), toString |-> Str("new")])

---------------------------------------------------------------------------
(* sendDMs called on its own, with any mapOutput *)

\* the longest list of resolution results sendDMs is called with
MaxRecipients == 2

Resolved(participant, username) ==
    MapResult(username, RcUser(username), Undefined, participant)

ResultPool ==
    { Resolved(bob, Str("bob")),
      Resolved(carol, Str("carol")),
      MapResult(Str("dave"), Undefined, Str("User not found"), dave),
      MapResult(Undefined, Undefined, Str("No username"), userA1) }

\* the result lists mapToRCUsers can return: one result for each of the
\* deduplicated participants, so no participant twice
ResultLists ==
    { rs \in UNION {[1..n -> ResultPool] : n \in 0..MaxRecipients} :
        \A i, j \in 1..Len(rs) : rs[i].participant = rs[j].participant => i = j }

WebhookEvents ==
    { Undefined, Str("jira:issue_created"), Str("jira:issue_updated"),
      Str("jira:issue_deleted"), Str("comment_created"), Str("comment_updated"),
      Str("comment_deleted"), Str("worklog_created") }

SecondaryEvents ==
    { Undefined, Str("issue_commented"), Str("issue_comment_deleted"),
      Str("issue_comment_edited"), Str("issue_generic") }

SendFields ==
    Obj([summary |-> Str("S"), description |-> Str("Body text"), assignee |-> bob])

\* the secondary name is read when webhookEvent is missing and under the
\* umbrella event; the other events carry none or a comment's
EventPairs ==
    { <<w, s>> : w \in {Undefined, Str("jira:issue_updated")}, s \in SecondaryEvents }
    \cup
    { <<w, s>> : w \in WebhookEvents, s \in {Undefined, Str("issue_commented")} }

\* every event without a comment and with an internal comment; the comment
\* events also with a public comment and one without the flag; the
\* issue-updated events also with a changelog; the issue-created and the
\* worklog-created event also for an issue without self
SendPayloads ==
    { Envelope(Issue(SelfUrl, SendFields), e[1], e[2], c, Undefined, Undefined) :
        e \in EventPairs, c \in {Undefined, CommentOf(Bool(FALSE))} }
    \cup
    { Envelope(Issue(SelfUrl, SendFields), w, s, c, Undefined, Undefined) :
        w \in {Str("comment_created"), Str("comment_updated"), Str("jira:issue_updated")},
        s \in {Undefined, Str("issue_commented")},
        c \in CommentValues }
    \cup
    { Envelope(Issue(SelfUrl, SendFields), Str("jira:issue_updated"), s, Undefined,
               ch, Undefined) :
        s \in SecondaryEvents,
        ch \in {Changelog(<<>>), Changelog(<<Change("status"), Change("description")>>)} }
    \cup
    { Envelope(Issue(Undefined, SendFields), w, Undefined, Undefined, Undefined,
               Undefined) :
        w \in {Str("jira:issue_created"), Str("worklog_created")} }
    \cup
    \* an issue-updated event whose changelog holds null instead of a change
    { Envelope(Issue(SelfUrl, SendFields), Str("jira:issue_updated"), Undefined,
               Undefined, Changelog(<<Null>>), Undefined) }

InitSend ==
    /\ pc = "sendReadSkip"
    /\ payload \in SendPayloads
    /\ fields = parseFields(payload)
    /\ customFieldsSetting = Undefined
    /\ participants = <<>>
    /\ uniqueParticipants = <<>>
    /\ thrown = NoError
    /\ mappingField = Str("name")
    /\ userMapping = Obj(<<>>)
    /\ results \in ResultLists
    /\ warnings = <<>>
    /\ skipInternal = Bool(FALSE)
    /\ appUser = Undefined
    /\ idx = 0
    /\ dmResults = <<>>
    /\ dmWarnings = <<>>
    /\ calls = <<>>
    /\ created = {}
    /\ messages = <<>>
    /\ response = Undefined

NextSend ==
    \/ SendReadSkipInternal
    \/ SendGetAppUser
    \/ SendRecipient
    \/ SendReturn

SpecSend == InitSend /\ [][NextSend]_vars

---------------------------------------------------------------------------
(* JiraWebhookEndpoint.post *)

PostFields ==
    { Obj([summary |-> Str("S"), description |-> Str("Body text"),
           assignee |-> a, reporter |-> r, watches |-> w,
           customfield_1 |-> ApprovalExample]) :
        a \in {Undefined, bob}, r \in {Undefined, bobAccount},
        w \in {Undefined, Obj([watchers |-> Arr(<<Null>>)])} }

PostPayloads ==
    { Envelope(Issue(SelfUrl, f), Str("jira:issue_created"), Undefined, Undefined,
               Undefined, Undefined) : f \in PostFields }
    \cup
    { Envelope(Issue(Undefined, f), Str("jira:issue_created"), Undefined, Undefined,
               Undefined, Undefined) : f \in PostFields }
    \cup
    { Envelope(Issue(SelfUrl, f), Str("comment_created"), Undefined,
               CommentOf(Bool(FALSE)), Undefined, carol) : f \in PostFields }
    \cup
    { Envelope(Issue(SelfUrl, f), Str("worklog_created"), Undefined, Undefined,
               Undefined, Undefined) : f \in PostFields }
    \cup
    \* an issue with summary, description and assignee only, without self
    { Envelope(Issue(Undefined, SendFields), Str("jira:issue_created"), Undefined,
               Undefined, Undefined, Undefined) }

Init ==
    /\ pc = "post"
    /\ payload \in PostPayloads \cup {Undefined}
    /\ fields = Undefined
    /\ customFieldsSetting = Undefined
    /\ participants = <<>>
    /\ uniqueParticipants = <<>>
    /\ thrown = NoError
    /\ NotStarted

\* lines 10-20: the payload is checked and parsed
PostReceive ==
    /\ pc = "post"
    /\ IF ~Truthy(payload)
       THEN /\ response' = [success |-> FALSE, message |-> "No payload received"]
            /\ pc' = "done"
            /\ UNCHANGED fields
       ELSE /\ fields' = parseFields(payload)
            /\ pc' = "readCustomFields"
            /\ UNCHANGED response
    /\ UNCHANGED <<payload, customFieldsSetting, extractVars, thrown, mapVars,
                   sendVars, idx, calls>>

\* lines 22-31: custom_user_fields is read, the participants are extracted
PostReadCustomFields ==
    /\ pc = "readCustomFields"
    /\ \E answer \in CustomFieldsReads :
          LET setting == IF answer = Throw THEN Undefined ELSE answer
              r == extractParticipants(fields, payload, setting)
          IN /\ customFieldsSetting' = setting
             /\ participants' = r.participants
             /\ uniqueParticipants' = r.value
             /\ thrown' = r.thrown
             /\ pc' = IF r.thrown = NoError THEN "readUserMapping" ELSE "crashed"
             /\ calls' = Append(calls, SettingCall("custom_user_fields", answer))
    /\ UNCHANGED <<payload, fields, mapVars, sendVars, idx, response>>

\* what post's own read of user_mapping_json may answer: a rejection is
\* caught, any value only sets the local userMapping
PostMappingJsonReads == {Throw, Undefined}

\* lines 33-42: post reads and parses user_mapping_json into a local that
\* only buildResponse receives, and buildResponse does not use it
PostReadUserMapping ==
    /\ pc = "readUserMapping"
    /\ \E answer \in PostMappingJsonReads :
          calls' = Append(calls, SettingCall("user_mapping_json", answer))
    /\ pc' = "readMappingField"
    /\ UNCHANGED <<payload, fields, customFieldsSetting, extractVars, thrown, mapVars,
                   sendVars, idx, response>>

\* lines 43-68: user_mapping_field is read, mapToRCUsers is called
PostReadMappingField ==
    /\ pc = "readMappingField"
    /\ \E answer \in MappingFieldReads :
          /\ mappingField' = IF answer # Throw /\ Truthy(answer) /\ IsString(answer)
                             THEN answer ELSE Str("name")
          /\ calls' = Append(calls, SettingCall("user_mapping_field", answer))
    /\ pc' = "mapReadMapping"
    /\ UNCHANGED <<payload, fields, customFieldsSetting, extractVars, thrown,
                   userMapping, results, warnings, sendVars, idx, response>>

\* lines 74-83: the response is built from sendDMs' output
PostRespond ==
    /\ pc = "sendReturned"
    /\ response' = buildResponse(Get(parseIssue(payload), "key"),
                                 parseEventType(payload), uniqueParticipants,
                                 dmResults, dmWarnings)
    /\ pc' = "done"
    /\ UNCHANGED <<payload, fields, customFieldsSetting, extractVars, thrown, mapVars,
                   sendVars, idx, calls>>

Next ==
    \/ PostReceive
    \/ PostReadCustomFields
    \/ PostReadUserMapping
    \/ PostReadMappingField
    \/ MapReadUserMapping
    \/ MapParticipant
    \/ MapReturn
    \/ SendReadSkipInternal
    \/ SendGetAppUser
    \/ SendRecipient
    \/ SendReturn
    \/ PostRespond

Spec == Init /\ [][Next]_vars

---------------------------------------------------------------------------
(* Properties of extractParticipants, checked under SpecExtract *)

\* the concatenation of a sequence of sequences
RECURSIVE Flatten(_)
Flatten(ss) == IF ss = <<>> THEN <<>> ELSE Head(ss) \o Flatten(Tail(ss))

\* the identity key of a reference: accountId, else emailAddress, else name,
\* the first that is neither null nor undefined; undefined when there is none
IdentityKey(p) ==
    IF Nullish(p) THEN Undefined
    ELSE IF ~Nullish(Get(p, "accountId")) THEN Get(p, "accountId")
    ELSE IF ~Nullish(Get(p, "emailAddress")) THEN Get(p, "emailAddress")
    ELSE Get(p, "name")

\* a reference has a derivable identity key
HasIdentityKey(p) == Truthy(IdentityKey(p))

\* the references of a list that have a key, each key at its first occurrence
FirstOccurrences(ps) ==
    LET firsts == {i \in 1..Len(ps) :
                      /\ HasIdentityKey(ps[i])
                      /\ \A j \in 1..(i - 1) : IdentityKey(ps[j]) # IdentityKey(ps[i])}
        Pick[k \in 0..Len(ps)] ==
            IF k = 0 THEN <<>>
            ELSE IF k \in firsts THEN Append(Pick[k - 1], ps[k]) ELSE Pick[k - 1]
    IN Pick[Len(ps)]

\* the entries of v when v is an array, nothing otherwise
ItemsOf(v) == IF IsArray(v) THEN v.items ELSE <<>>

\* the configured keys of each custom_user_fields value the model draws,
\* trimmed and with the empty ones dropped, written out by hand
ExpectedKeys(setting) ==
    CASE setting = Text(<<"customfield_1">>) -> <<"customfield_1">>
      [] setting = Text(<<"customfield_1", ",", " ", "customfield_2">>)
            -> <<"customfield_1", "customfield_2">>
      [] setting = Text(<<" ", "customfield_2", ",", ",", "customfield_1", " ">>)
            -> <<"customfield_2", "customfield_1">>
      [] setting = Text(<<"customfield_1", " ", "customfield_2">>)
            -> <<"customfield_1 customfield_2">>
      [] OTHER -> <<>>

\* x is a non-null object with an approvers array
HasApproversArray(x) == x.t = "object" /\ IsArray(Get(x, "approvers"))

\* the approver references of the wrappers of an approval object, the
\* wrappers without an approver left out
WrapperApprovers(x) ==
    LET ws == Get(x, "approvers").items
        keep == SelectSeq(ws, LAMBDA w : ~Nullish(w) /\ Truthy(Get(w, "approver")))
    IN [i \in 1..Len(keep) |-> Get(keep[i], "approver")]

\* what a configured field's value contributes, as the flattening rule says
Contribution(v) ==
    IF IsArray(v)
    THEN IF v.items # <<>> /\ HasApproversArray(v.items[1])
         THEN Flatten([i \in 1..Len(v.items) |->
                        IF HasApproversArray(v.items[i])
                        THEN WrapperApprovers(v.items[i]) ELSE <<>>])
         ELSE v.items
    ELSE IF v.t = "object"
    THEN IF HasApproversArray(v) THEN WrapperApprovers(v) ELSE <<v>>
    ELSE <<>>

\* the candidates in the order the documentation gives: assignee, reporter,
\* creator, the watchers, the envelope's top-level approvers, the envelope's
\* user, then the configured custom fields
DocumentedCandidates ==
    LET one(x) == IF Truthy(x) THEN <<x>> ELSE <<>>
        watches == Get(fields, "watches")
        keys == ExpectedKeys(customFieldsSetting)
    IN one(Get(fields, "assignee")) \o one(Get(fields, "reporter"))
       \o one(Get(fields, "creator"))
       \o (IF Nullish(watches) THEN <<>> ELSE ItemsOf(Get(watches, "watchers")))
       \o ItemsOf(Get(payload, "approvers"))
       \o one(Get(payload, "user"))
       \o Flatten([i \in 1..Len(keys) |-> Contribution(Get(fields, keys[i]))])

\* C7: the output of extractParticipants holds, ordered by first occurrence,
\* every keyed reference among assignee, reporter, creator, the watchers, the
\* entries of the envelope's top-level approvers array, the envelope's user
\* and the configured custom fields in configured order.
C7_DocumentedOrder ==
    pc = "extracted" => uniqueParticipants = FirstOccurrences(DocumentedCandidates)

\* C8: for every collected list extractParticipants returns exactly one entry
\* per distinct identity key, the first occurrence's record, without the
\* participants that have no derivable key, and deduplicating the output
\* again changes nothing.
C8_OnePerKey ==
    pc # "extract" =>
        /\ pc = "extracted"
        /\ uniqueParticipants = FirstOccurrences(participants)
        /\ \A i, j \in 1..Len(uniqueParticipants) :
              IdentityKey(uniqueParticipants[i]) = IdentityKey(uniqueParticipants[j])
                  => i = j
        /\ \A i \in 1..Len(uniqueParticipants) : HasIdentityKey(uniqueParticipants[i])
        /\ Dedup(uniqueParticipants) = uniqueParticipants

\* The part of C8 the code keeps: whenever extractParticipants returns, its
\* output is the first occurrence of each key and dedup is idempotent on it.
DedupWhenReturned ==
    pc = "extracted" =>
        /\ uniqueParticipants = FirstOccurrences(participants)
        /\ \A i, j \in 1..Len(uniqueParticipants) :
              IdentityKey(uniqueParticipants[i]) = IdentityKey(uniqueParticipants[j])
                  => i = j
        /\ Dedup(uniqueParticipants) = uniqueParticipants

\* C9: extractParticipants never fails: whatever the shape of fields and of
\* the envelope, null, undefined and primitive entries included, it returns
\* a list without raising.
C9_NeverFails == pc # "extract" => pc = "extracted" /\ thrown = NoError

\* C10: each configured custom field (keys trimmed, empty keys dropped) adds
\* to the candidates what the flattening rule says: the approver of every
\* wrapper of every element of an approval array, every element of another
\* array, the wrappers' approvers of an approval object, another object
\* itself, nothing for null, undefined and primitives; and the value
\* [{approvers:[{approver:{accountId:'a1'}}]}] alone yields the one
\* participant {accountId:'a1'}.
C10_ApprovalFlattening ==
    pc # "extract" =>
        LET keys == ExpectedKeys(customFieldsSetting)
            std == StandardCandidates(fields, payload)
        IN /\ Len(participants) >= Len(std)
           /\ SubSeq(participants, Len(std) + 1, Len(participants))
                = Flatten([i \in 1..Len(keys) |-> Contribution(Get(fields, keys[i]))])
           /\ (/\ std = <<>>
               /\ keys = <<"customfield_1">>
               /\ Get(fields, "customfield_1") = ApprovalExample)
              => /\ pc = "extracted"
                 /\ uniqueParticipants = <<userA1>>

\* C10's case: the approval example as the only configured field has been
\* flattened to its one approver
C10_Witness ==
    /\ pc = "extracted"
    /\ customFieldsSetting = Text(<<"customfield_1">>)
    /\ Get(fields, "customfield_1") = ApprovalExample
    /\ participants = <<userA1>>
    /\ uniqueParticipants = <<userA1>>

---------------------------------------------------------------------------
(* Properties of sendDMs, checked under SpecSend *)

\* the i-th resolution result carries a directory account
IsResolved(i) == Truthy(results[i].rcUser)

\* the positions of calls that are calls of op
CallsOf(op) == {k \in 1..Len(calls) : calls[k].op = op}

\* no conversation lookup, no conversation creation, no message dispatch
NoDeliveryCalls ==
    /\ CallsOf("getDirectByUsernames") = {}
    /\ CallsOf("createRoom") = {}
    /\ CallsOf("sendMessage") = {}
    /\ messages = <<>>
    /\ created = {}

\* C2 as claimed: after sendDMs returns there are as many delivery outcomes
\* as successfully resolved recipients.
C2_OutcomesEqualResolved ==
    pc = "sendReturned" =>
        Len(dmResults) = Cardinality({i \in 1..Len(results) : IsResolved(i)})

\* C2 as amended: after sendDMs returns there is exactly one delivery outcome
\* for every resolution result, resolved or not, in the results' order: the
\* i-th outcome echoes the i-th result's username, is a success only for a
\* resolved recipient and is a failure carrying an error otherwise.
C2_OneOutcomePerResult ==
    pc = "sendReturned" =>
        /\ Len(dmResults) = Len(results)
        /\ \A i \in 1..Len(results) :
              /\ dmResults[i].username = results[i].username
              /\ dmResults[i].sent => IsResolved(i) /\ dmResults[i].error = Undefined
              /\ ~dmResults[i].sent => dmResults[i].error # Undefined

\* C2's case: sendDMs returned for a resolved and an unresolved result, the
\* resolved one's DM was sent
C2_Witness ==
    /\ pc = "sendReturned"
    /\ Len(results) = 2
    /\ IsResolved(1) /\ ~IsResolved(2)
    /\ dmResults[1].sent /\ ~dmResults[2].sent

\* getAppUser() answered nothing in the invocation that returned
AppUserAbsent ==
    /\ pc \in {"sendReturned", "done"}
    /\ CallsOf("getAppUser") # {}
    /\ ~Truthy(appUser)

\* C3: when the application-identity accessor returns absent, every
\* recipient's outcome is sent:false with 'App user is undefined', and no
\* conversation lookup, conversation creation or message dispatch is made.
C3_AppUserUndefined ==
    AppUserAbsent =>
        /\ Len(dmResults) = Len(results)
        /\ \A i \in 1..Len(results) :
              dmResults[i] = DMResult(results[i].username, Undefined, FALSE,
                                      Str("App user is undefined"))
        /\ NoDeliveryCalls

\* C3's case: two resolvable recipients and no application identity
C3_Witness ==
    /\ AppUserAbsent
    /\ Len(results) = 2
    /\ IsResolved(1) /\ IsResolved(2)
    /\ Len(dmResults) = 2

\* the event is a comment-created event
IsCommentCreated ==
    \/ parseEventType(payload) \in {Str("comment_created"), Str("issue_commented")}
    \/ /\ parseEventType(payload) = Str("jira:issue_updated")
       /\ Get(payload, "issue_event_type_name") = Str("issue_commented")

\* the envelope's comment.public is false
CommentIsInternal ==
    /\ Get(payload, "comment").t = "object"
    /\ Get(Get(payload, "comment"), "public") = Bool(FALSE)

SuppressedError == Str("Internal comment, DM not sent")

\* C5 as claimed: with skip_internal_comments true, a comment-created event
\* and comment.public false, every recipient's outcome is the suppressed one,
\* whether its resolution succeeded or failed, and no message is dispatched.
C5_EveryRecipientSuppressed ==
    (/\ pc = "sendReturned"
     /\ skipInternal = Bool(TRUE) /\ IsCommentCreated /\ CommentIsInternal)
    => /\ \A i \in 1..Len(dmResults) :
             ~dmResults[i].sent /\ dmResults[i].error = SuppressedError
       /\ messages = <<>>

\* C5 as amended: with skip_internal_comments true, a comment-created event,
\* comment.public false and the application identity available, every
\* resolved recipient's outcome is the suppressed one, an unresolved
\* recipient's outcome carries its resolution error, and no conversation
\* call and no message is made.
C5_ResolvedSuppressed ==
    (/\ pc = "sendReturned" /\ Truthy(appUser)
     /\ skipInternal = Bool(TRUE) /\ IsCommentCreated /\ CommentIsInternal)
    => /\ Len(dmResults) = Len(results)
       /\ \A i \in 1..Len(results) :
             /\ ~dmResults[i].sent
             /\ dmResults[i].error =
                   IF IsResolved(i) THEN SuppressedError ELSE results[i].error
       /\ NoDeliveryCalls

\* C5's case: an internal comment was created, one recipient was resolved
\* and one was not
C5_Witness ==
    /\ pc = "sendReturned" /\ Truthy(appUser)
    /\ skipInternal = Bool(TRUE)
    /\ parseEventType(payload) = Str("comment_created")
    /\ CommentIsInternal
    /\ Len(results) = 2 /\ ~IsResolved(1) /\ IsResolved(2)
    /\ dmResults[2].error = SuppressedError

\* the event is comment-bearing, as the claim lists the events
IsCommentBearing ==
    LET webhookEvent == Get(payload, "webhookEvent")
        secondary == Get(payload, "issue_event_type_name")
        eventType == IF webhookEvent = Undefined THEN secondary ELSE webhookEvent
    IN \/ eventType = Str("issue_commented")
       \/ eventType = Str("comment_created")
       \/ eventType = Str("comment_updated")
       \/ eventType = Str("comment_deleted")
       \/ /\ eventType = Str("jira:issue_updated")
          /\ \/ secondary = Str("issue_commented")
             \/ secondary = Str("issue_comment_deleted")
             \/ secondary = Str("issue_comment_edited")

\* the errors a delivery that was attempted can end with
AttemptErrors ==
    { Undefined, TypeErrorMessage, Str("No handler for event"),
      ErrorMessage("getDirectByUsernames"), ErrorMessage("createRoom"),
      ErrorMessage("sendMessage") }

C6_AttemptedWitness ==
    /\ pc = "sendReturned"
    /\ skipInternal = Bool(TRUE)
    /\ parseEventType(payload) = Str("comment_created")
    /\ Get(Get(payload, "comment"), "public") = Undefined
    /\ Len(results) = 2 /\ IsResolved(1) /\ IsResolved(2)
    /\ dmResults[1].error = ErrorMessage("getDirectByUsernames")
    /\ dmResults[2].sent

---------------------------------------------------------------------------
(* Properties of the POST handler, checked under Spec *)

\* C1: whatever the envelope and whichever calls to the host fail, the
\* pipeline of the POST handler returns a response: no exception escapes it.
C1_NoExceptionEscapes == pc # "crashed" /\ thrown = NoError

\* the exceptions that escape do so after a failure of the host alone: the
\* application-identity accessor rejected
AppUserRejectionEscapes ==
    /\ pc = "crashed"
    /\ thrown = HostError
    /\ calls[Len(calls)].op = "getAppUser"

\* the application's identity could not be resolved in the invocation that
\* returned
AppIdentityUnavailable == AppUserAbsent

\* C4 as claimed: when the application's identity cannot be resolved no
\* getByUsername call is made for any participant in that invocation.
C4_NoDirectoryLookup ==
    AppIdentityUnavailable => CallsOf("getByUsername") = {}

\* C4 as amended: when the application's identity cannot be resolved, no
\* conversation lookup, no conversation creation and no message is made and
\* every outcome is 'App user is undefined'; the directory lookups are not
\* short-circuited: mapToRCUsers has made one getByUsername call for every
\* participant with a destination username, all before getAppUser is called.
C4_RoomEnsureShortCircuited ==
    AppIdentityUnavailable =>
        /\ NoDeliveryCalls
        /\ \A i \in 1..Len(dmResults) :
              ~dmResults[i].sent /\ dmResults[i].error = Str("App user is undefined")
        /\ Cardinality(CallsOf("getByUsername"))
              = Cardinality({i \in 1..Len(results) : results[i].username # Undefined})
        /\ \A i \in 1..Len(results) :
              results[i].username # Undefined =>
                 \E k \in CallsOf("getByUsername") : calls[k].arg = results[i].username
        /\ \A k \in CallsOf("getByUsername"), a \in CallsOf("getAppUser") : k < a

\* C4's case: the identity is unavailable after two directory lookups
C4_Witness ==
    /\ AppIdentityUnavailable
    /\ pc = "done"
    /\ Cardinality(CallsOf("getByUsername")) = 2
    /\ Len(dmResults) = 2

\* mapToRCUsers has returned in this invocation
MapReturned ==
    \/ pc \in {"sendReadSkip", "sendGetAppUser", "sendLoop", "sendReturned"}
    \/ pc = "done" /\ response.success
    \/ pc = "crashed" /\ thrown = HostError

\* the handler answered with the response buildResponse built
Responded == pc = "done" /\ response.success

C12_OrderPreserved ==
    /\ Len(results) <= Len(uniqueParticipants)
    /\ \A i \in 1..Len(results) : results[i].participant = uniqueParticipants[i]
    /\ Len(dmResults) <= Len(results)
    /\ \A i \in 1..Len(dmResults) :
          /\ dmResults[i].username = results[i].username
          /\ dmResults[i].sent => dmResults[i].rcUserId = Get(results[i].rcUser, "id")
          /\ (~dmResults[i].sent /\ ~IsResolved(i) /\ Truthy(appUser))
                => dmResults[i].error = results[i].error

\* C12's case: two results with different usernames, no application identity
C12_Witness ==
    /\ AppUserAbsent
    /\ Len(dmResults) = 2
    /\ dmResults[1].username # dmResults[2].username
    /\ results[1].participant # results[2].participant

\* two results with different usernames went through the loop, the first
\* resolved and the second not
C12_LoopWitness ==
    /\ pc = "sendReturned" /\ Truthy(appUser)
    /\ Len(dmResults) = 2
    /\ dmResults[1].username # dmResults[2].username
    /\ IsResolved(1) /\ ~IsResolved(2)

---------------------------------------------------------------------------
(* Properties of mapToRCUsers, checked under SpecMap *)

\* the participant's attribute named by the mapping field
RawKey(p) == Get(p, mappingField.v)

\* the explicit mapping table contains key as a key
TableContains(key) ==
    /\ userMapping.t = "object"
    /\ key.t = "string"
    /\ key.v \in DOMAIN userMapping.f

\* the destination username as the claim derives it
DocumentedUsername(p) ==
    IF Truthy(RawKey(p)) /\ TableContains(RawKey(p))
    THEN userMapping.f[RawKey(p).v]
    ELSE RawKey(p)

\* C13: the destination username of each participant is the mapped value
\* when its raw key is present and the mapping table contains it as a key,
\* and the raw key itself otherwise; the directory is looked up by exactly
\* that username.
C13_MappingPrecedence ==
    \A i \in 1..Len(results) :
       LET username == DocumentedUsername(uniqueParticipants[i])
       IN Truthy(username) =>
             /\ results[i].username = username
             /\ \E k \in CallsOf("getByUsername") : calls[k].arg = username

\* the same for the participants whose raw key is not the name of a property
\* inherited from Object.prototype
MappingPrecedenceOwnKeys ==
    \A i \in 1..Len(results) :
       LET username == DocumentedUsername(uniqueParticipants[i])
       IN (Truthy(username) /\ RawKey(uniqueParticipants[i]) # Str("constructor")) =>
             /\ results[i].username = username
             /\ \E k \in CallsOf("getByUsername") : calls[k].arg = username

\* a mapped and an unmapped participant were resolved
MappingPrecedenceWitness ==
    /\ pc = "sendReadSkip"
    /\ TableContains(Str("bob"))
    /\ Len(results) = 2
    /\ results[1].participant = bob /\ results[1].username = Str("robert")
    /\ results[2].participant = carol /\ results[2].username = Str("carol")

\* the position in calls of the lookup made for the i-th result
LookupOf(i) ==
    LET n == Cardinality({j \in 1..i : results[j].error # Str("No username")})
    IN CHOOSE k \in CallsOf("getByUsername") :
          Cardinality({k2 \in CallsOf("getByUsername") : k2 <= k}) = n

\* C14: a participant without destination username gets 'No username' and
\* no directory lookup; a lookup that answers no user gives 'User not
\* found'; a lookup that throws gives the lookup error; a user that is found
\* gives a result carrying the account and the participant; after each of
\* the three failures the resolution goes on with the next participant.
C14_ResolverClassification ==
    /\ Cardinality(CallsOf("getByUsername"))
          = Cardinality({i \in 1..Len(results) : results[i].error # Str("No username")})
    /\ \A i \in 1..Len(results) :
          LET p == uniqueParticipants[i]
              username == DestinationUsername(p, mappingField, userMapping)
          IN IF ~Truthy(username)
             THEN results[i] = MapResult(Undefined, Undefined, Str("No username"), p)
             ELSE LET lookup == calls[LookupOf(i)]
                  IN /\ lookup.arg = username
                     /\ results[i].username = username
                     /\ results[i].participant = p
                     /\ lookup.answer = Throw =>
                           /\ results[i].error = ErrorString("getByUsername")
                           /\ results[i].rcUser = Undefined
                     /\ lookup.answer = Undefined =>
                           /\ results[i].error = Str("User not found")
                           /\ results[i].rcUser = Undefined
                     /\ (lookup.answer # Throw /\ Truthy(lookup.answer)) =>
                           /\ results[i].rcUser = lookup.answer
                           /\ results[i].error = Undefined
    /\ pc = "mapLoop" => idx = Len(results) + 1
    /\ pc = "sendReadSkip" => Len(results) = Len(uniqueParticipants)
    /\ pc = "crashed" => Nullish(userMapping)

\* C14's case: the first participant has no username, the second one's
\* lookup threw, and mapToRCUsers returned
C14_Witness ==
    /\ pc = "sendReadSkip"
    /\ Len(results) = 2
    /\ results[1].error = Str("No username")
    /\ results[2].error = ErrorString("getByUsername")

\* a lookup that answered no user is followed by one that found the user
C14_FoundWitness ==
    /\ pc = "sendReadSkip"
    /\ Len(results) = 2
    /\ results[1].error = Str("User not found")
    /\ results[2].rcUser = RcUser(Str("carol"))
    /\ results[2].participant = carol

---------------------------------------------------------------------------
(* Properties of the POST handler's warnings, checked under Spec *)

\* the positions in calls of the reads of a setting
ReadsOf(id) ==
    {k \in CallsOf("getValueById") : calls[k].arg = Str(id)}

\* C15: when a directory lookup throws for a participant, the warnings of the
\* response contain an entry for that lookup error.
C15_LookupErrorWarned ==
    (/\ Responded
     /\ \E k \in CallsOf("getByUsername") : calls[k].answer = Throw)
    => \E j \in 1..Len(response.warnings) :
          response.warnings[j].detail \in
             {ErrorMessage("getByUsername"), ErrorString("getByUsername")}

\* the lookup error is reported as the participant's outcome instead
LookupErrorInOutcome ==
    Responded =>
       \A i \in 1..Len(results) :
          results[i].error = ErrorString("getByUsername")
             => dmResults[i].error \in {ErrorString("getByUsername"),
                                        Str("App user is undefined")}

\* what mapToRCUsers read as user_mapping_json: post reads the setting
\* first, mapToRCUsers second
MapReadAnswer == calls[CHOOSE k \in ReadsOf("user_mapping_json") :
                          \A k2 \in ReadsOf("user_mapping_json") : k2 <= k].answer

\* the value read is unreadable, not parsable or not a table
Malformed(raw) ==
    \/ raw = Throw
    \/ /\ raw.t = "string"
       /\ \/ ~JsonParse(raw).ok
          \/ JsonParse(raw).value.t # "object"

\* C16: for a user_mapping_json that is unreadable, not parsable or not a
\* key-to-username table the pipeline is not aborted: mapToRCUsers uses an
\* empty mapping, produces one result per participant and emits a warning
\* that the response carries, also without application identity.
C16_MalformedMappingRecovered ==
    (Cardinality(ReadsOf("user_mapping_json")) = 2 /\ Malformed(MapReadAnswer))
    => /\ thrown # TypeError
       /\ userMapping = Obj(<<>>)
       /\ warnings # <<>>
       /\ MapReturned => Len(results) = Len(uniqueParticipants)
       /\ Responded => response.warnings = warnings

\* the unreadable and the unparsable value are recovered as claimed
MalformedMappingWarned ==
    (/\ Cardinality(ReadsOf("user_mapping_json")) = 2
     /\ \/ MapReadAnswer = Throw
        \/ MapReadAnswer.t = "string" /\ ~JsonParse(MapReadAnswer).ok)
    => /\ thrown # TypeError
       /\ userMapping = Obj(<<>>)
       /\ Len(warnings) = 1
       /\ MapReturned => Len(results) = Len(uniqueParticipants)
       /\ Responded => response.warnings = warnings

\* an unparsable mapping was recovered and the response without application
\* identity carries its warning
MalformedMappingWitness ==
    /\ Responded
    /\ AppUserAbsent
    /\ MapReadAnswer.t = "string" /\ ~JsonParse(MapReadAnswer).ok
    /\ Len(response.warnings) = 1
    /\ Len(results) = 2

\* C17: whenever the read of a setting throws, the invocation completes with
\* the setting's default and the response's warnings report the recovery.
C17_ReadFailureWarned ==
    /\ \A k \in ReadsOf("custom_user_fields") :
          calls[k].answer = Throw => customFieldsSetting = Undefined
    /\ \A k \in ReadsOf("user_mapping_field") :
          calls[k].answer = Throw => mappingField = Str("name")
    /\ \A k \in ReadsOf("skip_internal_comments") :
          calls[k].answer = Throw => skipInternal = Bool(FALSE)
    /\ (Cardinality(ReadsOf("user_mapping_json")) = 2 /\ MapReadAnswer = Throw)
          => userMapping = Obj(<<>>)
    /\ Responded =>
          \A k \in CallsOf("getValueById") :
             calls[k].answer = Throw =>
                \E j \in 1..Len(response.warnings) :
                   response.warnings[j].detail = ErrorMessage("getValueById")

\* the defaults are used, and only mapToRCUsers' own read of
\* user_mapping_json is reported in the response
ReadFailureDefaults ==
    /\ \A k \in ReadsOf("custom_user_fields") :
          calls[k].answer = Throw => customFieldsSetting = Undefined
    /\ \A k \in ReadsOf("user_mapping_field") :
          calls[k].answer = Throw => mappingField = Str("name")
    /\ \A k \in ReadsOf("skip_internal_comments") :
          calls[k].answer = Throw => skipInternal = Bool(FALSE)
    /\ (Cardinality(ReadsOf("user_mapping_json")) = 2 /\ MapReadAnswer = Throw)
          => userMapping = Obj(<<>>)
    /\ Responded =>
          ((\E j \in 1..Len(response.warnings) :
               response.warnings[j].detail = ErrorMessage("getValueById"))
           <=> MapReadAnswer = Throw)

\* every read of the endpoint and of sendDMs threw and the handler responded
ReadFailureWitness ==
    /\ Responded
    /\ \A k \in ReadsOf("custom_user_fields") \cup ReadsOf("user_mapping_field")
                   \cup ReadsOf("skip_internal_comments") :
          calls[k].answer = Throw
    /\ response.warnings = <<>>
    /\ response.parsed.sent = 1

---------------------------------------------------------------------------
(* The issue-created scenario, checked under Spec *)

\* {webhookEvent:'jira:issue_created', issue:{key:'PRJ-1', fields:{summary:'S',
\*  assignee:{name:'bob'}, description:'Body text'}}}
ScenarioEnvelope ==
    Envelope(Issue(Undefined, SendFields), Str("jira:issue_created"), Undefined,
             Undefined, Undefined, Undefined)

\* the same envelope for an issue that carries its REST URL in self
ScenarioEnvelopeWithSelf ==
    Envelope(Issue(SelfUrl, Obj([summary |-> Str("S"), description |-> Str("Body text"),
                                 assignee |-> bob, reporter |-> Undefined,
                                 watches |-> Undefined,
                                 customfield_1 |-> ApprovalExample])),
             Str("jira:issue_created"), Undefined, Undefined, Undefined, Undefined)

\* no setting is set, no call rejected, the directory and the application
\* identity answered, and the conversation was found or created
ScenarioCapabilities ==
    /\ \A k \in 1..Len(calls) : calls[k].answer # Throw
    /\ \A k \in ReadsOf("custom_user_fields") \cup ReadsOf("user_mapping_field")
                   \cup ReadsOf("user_mapping_json") : calls[k].answer = Undefined
    /\ \A k \in CallsOf("getByUsername") : Truthy(calls[k].answer)
    /\ \A k \in CallsOf("getAppUser") : calls[k].answer = AppUser
    /\ \A k \in CallsOf("getDirectByUsernames") :
          (\A k2 \in CallsOf("getDirectByUsernames") : k2 <= k)
             => Truthy(calls[k].answer)

\* the run sent one DM whose attachment text starts with *Created*
OneCreatedMessage ==
    /\ Len(dmResults) = 1
    /\ dmResults[1].sent
    /\ Len(messages) = 1
    /\ Len(messages[1].attachments) = 1
    /\ messages[1].attachments[1].head = "*Created*"

\* C18: the issue-created scenario, whose issue has the key and the fields
\* summary, assignee bob and description only, with every capability
\* succeeding, produces exactly one delivery outcome, sent:true, and exactly
\* one message whose attachment text starts with '*Created*'.
C18_IssueCreatedScenario ==
    (payload = ScenarioEnvelope /\ Responded /\ ScenarioCapabilities)
    => OneCreatedMessage

\* the scenario's outcome when the issue carries self
IssueCreatedWithSelf ==
    (payload = ScenarioEnvelopeWithSelf /\ Responded /\ ScenarioCapabilities)
    => OneCreatedMessage

\* the scenario ran with an issue that carries self
IssueCreatedWithSelfWitness ==
    /\ payload = ScenarioEnvelopeWithSelf /\ Responded /\ ScenarioCapabilities
    /\ OneCreatedMessage

\* the scenario ran as given: the outcome is the TypeError the try block caught
ScenarioTypeError ==
    /\ payload = ScenarioEnvelope /\ Responded /\ ScenarioCapabilities
    /\ dmResults = <<DMResult(Str("bob"), Undefined, FALSE, TypeErrorMessage)>>
    /\ messages = <<>>

---------------------------------------------------------------------------
(* Properties of the delivery, checked under SpecSend *)

\* the event types of the handled table
HandledEventTypes ==
    { Str("jira:issue_created"), Str("jira:issue_deleted"), Str("jira:issue_updated"),
      Str("issue_commented"), Str("comment_created"), Str("comment_updated"),
      Str("comment_deleted") }

UnhandledEvent == parseEventType(payload) \notin HandledEventTypes

NoHandlerError == Str("No handler for event")

RejectedRoomCalls ==
    {k \in CallsOf("getDirectByUsernames") \cup CallsOf("createRoom") :
        calls[k].answer = Throw}

Buildable ==
    /\ ~SummaryThrows(parseIssue(payload))
    /\ ~AttachmentsThrow(parseEventType(payload), payload)
    /\ SelectAttachments(parseEventType(payload), payload, parseIssue(payload),
                         Undefined) # <<>>

\* the calls sendDMs made after getAppUser() answered
DeliveryCalls ==
    LET a == CHOOSE k \in CallsOf("getAppUser") : TRUE
    IN SubSeq(calls, a + 1, Len(calls))

\* the number of calls of the delivery that starts cs: the lookup, the
\* creation and second lookup when the first found nothing, the dispatch when
\* a message was built; a rejected call is the last one
SegmentLength(cs) ==
    IF cs[1].answer = Throw THEN 1
    ELSE IF Truthy(cs[1].answer) THEN (IF Buildable THEN 2 ELSE 1)
    ELSE IF cs[2].answer = Throw THEN 2
    ELSE IF cs[3].answer = Throw THEN 3
    ELSE IF Buildable THEN 4 ELSE 3

\* the error a delivery ends with, from the answers to its own calls
\* (undefined when the DM is sent)
SegmentError(seg) ==
    IF \E k \in 1..Len(seg) : seg[k].answer = Throw
    THEN ErrorMessage(seg[CHOOSE k \in 1..Len(seg) : seg[k].answer = Throw].op)
    ELSE IF \/ SummaryThrows(parseIssue(payload))
            \/ AttachmentsThrow(parseEventType(payload), payload)
    THEN TypeErrorMessage
    ELSE IF ~Buildable THEN NoHandlerError
    ELSE Undefined

\* the deliveries of a call log: the recipient's username and the error
RECURSIVE Deliveries(_)
Deliveries(cs) ==
    IF cs = <<>> THEN <<>>
    ELSE LET n == SegmentLength(cs)
         IN <<[username |-> cs[1].arg.items[1], error |-> SegmentError(SubSeq(cs, 1, n))]>>
            \o Deliveries(SubSeq(cs, n + 1, Len(cs)))

\* the results among the first n for which a delivery is attempted
Attempted(n) ==
    {i \in 1..n :
        /\ IsResolved(i)
        /\ ~IsInternalSkipped(skipInternal, parseEventType(payload), payload)}

\* C20: every attempted delivery ends with the outcome its own calls decide:
\* a rejected conversation lookup, conversation creation or dispatch and a
\* message that cannot be built give sent:false with that error, and the
\* deliveries after it are still made, each with the outcome of its own calls.
C20_FailureIsolation ==
    Truthy(appUser) =>
        LET n == Len(dmResults)
            ds == Deliveries(DeliveryCalls)
            rank(i) == Cardinality({j \in Attempted(n) : j <= i})
        IN /\ pc = "sendLoop" => n = idx - 1
           /\ pc = "sendReturned" => n = Len(results)
           /\ Len(ds) = Cardinality(Attempted(n))
           /\ \A i \in Attempted(n) :
                 /\ ds[rank(i)].username = Get(results[i].rcUser, "username")
                 /\ dmResults[i].error = ds[rank(i)].error
                 /\ dmResults[i].sent <=> ds[rank(i)].error = Undefined

\* C20's case: the first recipient's conversation could not be created, the
\* second recipient's DM was sent
C20_Witness ==
    /\ pc = "sendReturned"
    /\ Len(results) = 2 /\ IsResolved(1) /\ IsResolved(2)
    /\ dmResults[1].error = ErrorMessage("createRoom")
    /\ dmResults[2].sent
    /\ Len(messages) = 1

\* the dispatch rejected for the first recipient and the second one's
\* lookup rejected
C20_DispatchWitness ==
    /\ pc = "sendReturned"
    /\ Len(results) = 2 /\ IsResolved(1) /\ IsResolved(2)
    /\ dmResults[1].error = ErrorMessage("sendMessage")
    /\ dmResults[2].error = ErrorMessage("getDirectByUsernames")

---------------------------------------------------------------------------
(* Properties of the response and of the recipients, checked under Spec *)

\* the counts of a response are those of the run
CountsReported ==
    /\ response.parsed.participantCount = Len(uniqueParticipants)
    /\ response.parsed.totalDMs = Len(dmResults)
    /\ response.parsed.sent = Cardinality({i \in 1..Len(dmResults) : dmResults[i].sent})
    /\ 0 <= response.parsed.sent
    /\ response.parsed.sent <= response.parsed.totalDMs

\* C21 as claimed: every response to a POST reports success:true, with
\* participantCount, totalDMs and sent counting the deduplicated
\* participants, the delivery outcomes and the outcomes with sent:true.
C21_AlwaysSuccessTrue ==
    pc = "done" => response.success /\ CountsReported

\* C21 as amended: every response to a POST that carries a payload reports
\* success:true whatever the delivery outcomes, with participantCount,
\* totalDMs and sent counting the deduplicated participants, the delivery
\* outcomes and the outcomes with sent:true, so 0 <= sent <= totalDMs; a POST
\* without payload is answered {success:false, message:'No payload
\* received'}, without counts.
C21_SuccessTrueWithPayload ==
    pc = "done" =>
        IF Truthy(payload)
        THEN response.success /\ CountsReported
        ELSE response = [success |-> FALSE, message |-> "No payload received"]

\* C21's case: a response for two participants with no DM sent
C21_Witness ==
    /\ pc = "done"
    /\ response.success
    /\ response.parsed.totalDMs = 2
    /\ response.parsed.sent = 0
    /\ Truthy(appUser)

\* the POST without payload was answered
NoPayloadWitness == pc = "done" /\ ~Truthy(payload) /\ ~response.success

\* C22: no two messages dispatched in one invocation go to the same
\* Rocket.Chat account, also when two participants with different identity
\* keys resolve to the same username.
C22_OneMessagePerAccount ==
    \A i, j \in 1..Len(dmResults) :
       (dmResults[i].sent /\ dmResults[j].sent /\ i # j)
          => dmResults[i].rcUserId # dmResults[j].rcUserId

\* two participants with different identity keys got a DM in the same room
DuplicateMessageWitness ==
    /\ Responded
    /\ Len(uniqueParticipants) = 2
    /\ DedupKey(uniqueParticipants[1]) # DedupKey(uniqueParticipants[2])
    /\ Len(messages) = 2
    /\ Truthy(messages[1].room)
    /\ messages[1].room = messages[2].room

---------------------------------------------------------------------------
(* The calls of the delivery, checked under SpecSend *)

\* the call log of the deliveries, one subsequence for each delivery
RECURSIVE Segments(_)
Segments(cs) ==
    IF cs = <<>> THEN <<>>
    ELSE LET n == SegmentLength(cs)
         IN <<SubSeq(cs, 1, n)>> \o Segments(SubSeq(cs, n + 1, Len(cs)))

\* the positions in a delivery of the calls of op
InSegment(seg, op) == {k \in 1..Len(seg) : seg[k].op = op}

---------------------------------------------------------------------------
(* The order of the external calls, checked under Spec *)

\* the results for which mapToRCUsers looked the username up
LookedUp == {i \in 1..Len(results) : results[i].error # Str("No username")}

\* the call is a directory lookup
IsDirectoryLookup(c) == c.op = "getByUsername"

\* C24: the calls are made one after the other, each answered before the
\* next: every directory lookup precedes the first conversation or message
\* call, the lookups follow the order of the participants, and the calls of
\* the deliveries follow the order of the recipients, all calls for one
\* recipient before any call for the next.
C24_SequentialOrder ==
    LET lookups == SelectSeq(calls, IsDirectoryLookup)
        nth(i) == Cardinality({j \in LookedUp : j <= i})
    IN /\ \A k \in 1..Len(calls) :
             calls[k].op = "getByUsername" =>
                \A l \in 1..k :
                   calls[l].op \notin {"getAppUser", "getDirectByUsernames",
                                       "createRoom", "sendMessage"}
       /\ Len(lookups) = Cardinality(LookedUp)
       /\ \A i \in LookedUp :
             lookups[nth(i)].arg
                = DestinationUsername(uniqueParticipants[i], mappingField, userMapping)
       /\ Truthy(appUser) =>
             LET n == Len(dmResults)
                 segs == Segments(DeliveryCalls)
                 rank(i) == Cardinality({j \in Attempted(n) : j <= i})
             IN /\ Len(segs) = Cardinality(Attempted(n))
                /\ \A i \in Attempted(n) :
                      LET seg == segs[rank(i)]
                          pair == Arr(<<Get(results[i].rcUser, "username"),
                                        Get(appUser, "username")>>)
                      IN \A k \in 1..Len(seg) :
                            /\ seg[k].op \in {"getDirectByUsernames", "createRoom",
                                              "sendMessage"}
                            /\ seg[k].op # "sendMessage" => seg[k].arg = pair
                            /\ seg[k].op = "sendMessage" =>
                                  seg[k].arg.room = seg[k - 1].answer

\* each step appends the calls it makes, answered, to the calls made before
C24_CallsOnlyAppended ==
    [][/\ Len(calls') >= Len(calls)
       /\ SubSeq(calls', 1, Len(calls)) = calls]_vars

\* C24's case: two participants were looked up and found under different
\* usernames and each got its conversation calls and its message
C24_Witness ==
    /\ pc = "sendReturned"
    /\ Len(results) = 2 /\ IsResolved(1) /\ IsResolved(2)
    /\ Get(results[1].rcUser, "username") # Get(results[2].rcUser, "username")
    /\ Cardinality(CallsOf("getByUsername")) = 2
    /\ dmResults[1].sent /\ dmResults[2].sent
    /\ Cardinality(CallsOf("createRoom")) = 1

---------------------------------------------------------------------------
(* The reads of the mapping configuration, checked under Spec *)

\* C25 as claimed: user_mapping_json is read exactly once in an invocation,
\* before any participant is resolved, and every participant is resolved
\* against the mapping parsed from that read.
C25_MappingReadOnce ==
    /\ Cardinality(ReadsOf("user_mapping_json")) <= 1
    /\ MapReturned => Cardinality(ReadsOf("user_mapping_json")) = 1
    /\ \A k \in ReadsOf("user_mapping_json") :
          \A l \in CallsOf("getByUsername") : k < l

\* what the code does: post reads the setting into a local it never uses
\* and mapToRCUsers reads it again; both reads precede every lookup
MappingReadTwice ==
    /\ Cardinality(ReadsOf("user_mapping_json")) <= 2
    /\ MapReturned => Cardinality(ReadsOf("user_mapping_json")) = 2
    /\ \A k \in ReadsOf("user_mapping_json") :
          \A l \in CallsOf("getByUsername") : k < l

\* the mapping parsed by mapToRCUsers stays the same over its loop
MappingKeptOverLoop ==
    [][pc = "mapLoop" => userMapping' = userMapping]_vars

\* the two reads of one invocation were answered differently and a
\* participant was resolved through the mapping of the second
TwoReadsDisagree ==
    /\ MapReturned
    /\ \E k, l \in ReadsOf("user_mapping_json") :
          /\ k < l
          /\ calls[k].answer = Undefined
          /\ calls[l].answer \notin {Undefined, Throw}
    /\ \E i \in 1..Len(results) : results[i].username = Str("robert")

---------------------------------------------------------------------------
(* The issue-updated event with a changelog, checked under SpecSend *)

\* the event is jira:issue_updated and its secondary name is none of the
\* three comment names
UpdatedWithoutComment ==
    /\ parseEventType(payload) = Str("jira:issue_updated")
    /\ ~IsCommentSecondary(payload)

\* changelog.items of the payload when it is an array, else empty
PayloadChanges ==
    LET items == Get(Get(payload, "changelog"), "items")
    IN IF items.t = "array" THEN items.items ELSE <<>>

C26_EmptyWitness ==
    /\ pc = "sendReturned"
    /\ UpdatedWithoutComment
    /\ HasChangelogItems(payload) /\ PayloadChanges = <<>>
    /\ Len(results) >= 1 /\ IsResolved(1)
    /\ dmResults[1].error = NoHandlerError
    /\ messages = <<>>

\* a changelog item that is null gave the TypeError
C26_NullItemWitness ==
    /\ pc = "sendReturned"
    /\ UpdatedWithoutComment
    /\ PayloadChanges = <<Null>>
    /\ Len(results) >= 1 /\ IsResolved(1)
    /\ dmResults[1].error = TypeErrorMessage

---------------------------------------------------------------------------
(* The conversation a message is dispatched into, checked under SpecSend *)

\* the dispatches that follow a conversation lookup that found no room
DispatchesWithoutRoom ==
    {k \in CallsOf("sendMessage") :
        /\ calls[k - 1].op = "getDirectByUsernames"
        /\ ~Truthy(calls[k - 1].answer)}

\* C27: sendMessage is invoked only after a conversation lookup returned a
\* conversation for the recipient and the application, and into that
\* conversation; when the lookup after the creation still finds none, the
\* recipient's outcome is sent:false and no message is dispatched.
C27_DispatchOnlyIntoConversation ==
    /\ DispatchesWithoutRoom = {}
    /\ \A k \in CallsOf("sendMessage") : Truthy(calls[k].arg.room)
    /\ \A m \in 1..Len(messages) : Truthy(messages[m].room)

\* what the code does: the dispatch follows the last lookup whatever it
\* answered, and the message's room is that answer
DispatchAfterLastLookup ==
    \A k \in CallsOf("sendMessage") :
       /\ calls[k - 1].op = "getDirectByUsernames"
       /\ calls[k - 1].answer # Throw
       /\ calls[k].arg.room = calls[k - 1].answer

\* the first lookup found no conversation, the creation returned, the second
\* lookup still found none, and the message was dispatched without a room
\* and the recipient's outcome is sent:true
DispatchWithoutRoomWitness ==
    /\ pc = "sendReturned"
    /\ Len(results) >= 1 /\ IsResolved(1)
    /\ Len(DeliveryCalls) >= 4
    /\ DeliveryCalls[1].answer = Undefined
    /\ DeliveryCalls[2].op = "createRoom" /\ DeliveryCalls[2].answer # Throw
    /\ DeliveryCalls[3].op = "getDirectByUsernames"
    /\ DeliveryCalls[3].answer = Undefined
    /\ DeliveryCalls[4].op = "sendMessage"
    /\ DeliveryCalls[4].arg.room = Undefined
    /\ DeliveryCalls[4].answer = Finished
    /\ dmResults[1].sent

---------------------------------------------------------------------------
(* The conversations created, checked under SpecSend *)

\* no attachment is selected for the event: it is outside the handled
\* table, or an issue-updated event without changelog items
NoAttachmentEvent ==
    /\ ~AttachmentsThrow(parseEventType(payload), payload)
    /\ SelectAttachments(parseEventType(payload), payload, parseIssue(payload),
                         Undefined) = <<>>

\* C28: a conversation is created only for a recipient for whom a message is
\* then dispatched; for an event that yields no attachment no conversation
\* is created.
C28_CreateOnlyWhenDispatched ==
    /\ NoAttachmentEvent => CallsOf("createRoom") = {} /\ created = {}
    /\ pc = "sendReturned" =>
          \A k \in CallsOf("createRoom") :
             calls[k].answer # Throw =>
                /\ k + 2 <= Len(calls)
                /\ calls[k + 2].op = "sendMessage"

\* what the code does: the conversation is ensured before the event is
\* examined, so a creation follows every first lookup that found nothing
CreatedBeforeEventExamined ==
    Truthy(appUser) =>
        \A s \in 1..Len(Segments(DeliveryCalls)) :
           LET seg == Segments(DeliveryCalls)[s]
           IN seg[1].answer = Undefined =>
                 Len(seg) >= 2 /\ seg[2].op = "createRoom"

\* an issue-updated event without changelog items: a conversation was
\* created for the recipient and no message was dispatched
CreatedForNothingWitness ==
    /\ pc = "sendReturned"
    /\ UpdatedWithoutComment /\ PayloadChanges = <<>>
    /\ NoAttachmentEvent
    /\ created # {}
    /\ CallsOf("sendMessage") = {}
    /\ \E i \in 1..Len(dmResults) : dmResults[i].error = NoHandlerError
=============================================================================
